---- MODULE Spec2Model ----
(***************************************************************************)
(* Model of vg_control/data/uploader.py: the multipart upload session      *)
(* (upload_archive), the per-chunk retry engine (upload_single_chunk) and  *)
(* the progress reporter (emit_upload_progress).                           *)
(*                                                                         *)
(* Every network call, every read of the archive, every read of the clock  *)
(* and every write to the progress channel is an input of the model: its   *)
(* outcome is drawn with \E from the outcomes the call can have.           *)
(***************************************************************************)
EXTENDS Integers, Sequences, FiniteSets, TLC

\* ------------------------------------------------------------- bounds
MaxFileSize == 3        \* archive sizes 0..MaxFileSize bytes
MaxChunkSize == 2       \* server-chosen chunk_size_bytes in 1..MaxChunkSize
MaxChunks == 2          \* server-chosen total_chunks in 0..MaxChunks
MaxElapsed == 1         \* time.time() - start_time in -1..MaxElapsed
MaxArg == 3             \* SpecEmit: bytes_uploaded and total_bytes in 0..MaxArg
MaxRetries == 2         \* SpecRetries: max_retries in 0..MaxRetries

\* ---------------------------------------------------- program constants
DefaultMaxRetries == 5  \* upload_single_chunk(max_retries=5)
BarWidth == 50          \* stderr_line.count("#") / 50
BytesPerMiB == 1048576  \* 1024 * 1024

\* Number of '#' characters a line of curl's progress output may carry: none,
\* half a bar, a full bar, and more than a bar (several redraws in one line).
HashCounts == {0, 25, 50, 75}
\* time.time() - start_time; time.time() is the wall clock and may step back.
ElapsedTimes == (0 - 1)..MaxElapsed
UploadIds == {"u1", "u2"}
\* Values the ETag header of a PUT response may carry ("" is an empty header).
EtagValues == {"", "a", "b"}

VARIABLES
    pc,                    \* control point of upload_archive
    max_retries,           \* upload_single_chunk's max_retries
    file_size,             \* os.path.getsize(archive_path)
    f_pos,                 \* read position of the open archive
    source_exhausted,      \* f.read returned no bytes
    upload_id, total_chunks, chunk_size_bytes,   \* upload_session fields
    upload_success,
    chunk_etags,           \* list of {chunk_number, etag}
    bytes_uploaded,
    chunk_num,             \* loop variable of the chunk loop
    chunk_data,            \* bytes of the chunk being uploaded
    retry,                 \* loop variable of the retry loop
    total_bytes_uploaded, last_progress_update,
    error,                 \* exception in flight in upload_archive
    outcome,               \* what upload_archive gave its caller
    progress,              \* last snapshot written to the progress channel
    emit_result,           \* emit_upload_progress call of the latest step
    put_response,          \* result of the latest curl PUT
    url_calls, put_calls,  \* destination requests / PUTs for the current chunk
    last_requested,        \* highest chunk number a destination was requested for
    backoff,               \* time.sleep arguments for the current chunk
    failures,              \* failed attempts of the current chunk
    complete_calls, complete_arg, complete_response,
    abort_calls, abort_arg, abort_failed,
    chunk_hash,            \* hashlib.sha256(chunk_data).hexdigest()
    temp_chunk,            \* contents of the temporary chunk file
    chunk_upload_url,      \* the destination held: the request that gave it
    sent_hash,             \* chunk_hash of the latest destination request
    put_url, put_body      \* destination and bytes of the latest curl PUT

session == <<upload_id, total_chunks, chunk_size_bytes>>
chunk_vars == <<chunk_num, chunk_data, f_pos, source_exhausted>>
attempt_vars ==
    <<retry, total_bytes_uploaded, last_progress_update, backoff, failures>>
net_vars == <<put_response, url_calls, put_calls, last_requested>>
complete_vars == <<complete_calls, complete_arg, complete_response>>
abort_vars == <<abort_calls, abort_arg, abort_failed>>
wire_vars ==
    <<chunk_hash, temp_chunk, chunk_upload_url, sent_hash, put_url, put_body>>

vars == <<pc, max_retries, file_size, session, upload_success, chunk_etags,
          bytes_uploaded, chunk_vars, attempt_vars, error, outcome, progress,
          emit_result, net_vars, complete_vars, abort_vars, wire_vars>>

\* ------------------------------------------------------------ helpers
Min(a, b) == IF a <= b THEN a ELSE b

\* A quotient n/d kept exact.  d = 0 stands for Python's ZeroDivisionError.
Rat(n, d) == [n |-> n, d |-> d]
RatZero == Rat(0, 1)
RatPos(x) == x.n * x.d > 0
RatNeg(x) == x.n * x.d < 0
RatIsZero(x) == x.d # 0 /\ x.n = 0
RatLE(x, y) == x.n * y.d <= y.n * x.d
RatEq(x, y) == x.n * y.d = y.n * x.d
RatMin(x, y) == IF RatLE(x, y) THEN x ELSE y
\* x / y for quotients x, y with positive denominators
RatDiv(x, y) == Rat(x.n * y.d, x.d * y.n)

NoSnapshot == [kind |-> "none"]

\* The archive's bytes: byte i of the file.
Archive(size) == [i \in 1..size |-> i % 2]

\* f.read(n) at position pos of a file of `size` bytes
ReadBytes(size, pos, n) ==
    LET arch == Archive(size)
    IN  SubSeq(arch, pos + 1, Min(pos + n, size))

\* hashlib.sha256(data).hexdigest(), taken as free of collisions: the bits of
\* the bytes under a leading 1.  0 is no hash.
RECURSIVE Sha256(_)
Sha256(data) ==
    IF data = <<>>
    THEN 1
    ELSE 2 * Sha256(SubSeq(data, 1, Len(data) - 1)) + data[Len(data)]

\* -------------------------------------------------- emit_upload_progress
\* speed_bps = bytes_uploaded / elapsed_time if elapsed_time > 0 else 0
SpeedBps(bytes, elapsed) ==
    IF elapsed > 0 THEN Rat(bytes, elapsed) ELSE RatZero

\* min((bytes_uploaded / total_bytes) * 100, 100) if total_bytes > 0 else 0
Percent(bytes, total) ==
    IF total > 0 THEN RatMin(Rat(bytes * 100, total), Rat(100, 1)) ELSE RatZero

\* speed_bps / (1024 * 1024) if speed_bps > 0 else 0
SpeedMbps(speed) ==
    IF RatPos(speed) THEN Rat(speed.n, speed.d * BytesPerMiB) ELSE RatZero

\* ((total_bytes - bytes_uploaded) / speed_bps) if speed_bps > 0 else 0
EtaSeconds(bytes, total, speed) ==
    IF RatPos(speed) THEN RatDiv(Rat(total - bytes, 1), speed) ELSE RatZero

\* progress_data, for the clock reading elapsed = time.time() - start_time.
\* The local speed_bps is kept beside the fields that are printed, so that a
\* division by zero in it shows.  Python's floats are modelled by the exact
\* quotients: rounding changes neither the sign of a field nor the side of
\* 100 the clamped percent is on.
ProgressData(bytes, elapsed, total, cur, nchunks) ==
    LET speed_bps == SpeedBps(bytes, elapsed)
    IN  [kind |-> "progress",
         bytes_uploaded |-> bytes,
         total_bytes |-> total,
         percent |-> Percent(bytes, total),
         speed_bps |-> speed_bps,
         speed_mbps |-> SpeedMbps(speed_bps),
         eta_seconds |-> EtaSeconds(bytes, total, speed_bps),
         current_chunk |-> cur,
         total_chunks |-> nchunks]

\* A division by zero while building progress_data
RaisesZeroDivision(snap) ==
    \/ snap.percent.d = 0
    \/ snap.speed_bps.d = 0
    \/ snap.speed_mbps.d = 0
    \/ snap.eta_seconds.d = 0

\* ---------------------------------------------------- upload_single_chunk
\* CurrentChunkBytes without its two min(): the bar's overshoot is not clamped.
CurrentChunkBytesUnclamped(chunk_size, hashes) ==
    (chunk_size * ((hashes * 100) \div BarWidth)) \div 100

\* percent = min((stderr_line.count("#") / 50) * 100, 100)
\* current_chunk_bytes = min(int(chunk_size * (percent / 100)), chunk_size)
CurrentChunkBytes(chunk_size, hashes) ==
    LET percent == Min((hashes * 100) \div BarWidth, 100)
    IN  Min((chunk_size * percent) \div 100, chunk_size)

\* IsLastAttempt off by one: the last attempt is not recognised.
IsLastAttemptOffByOne(r, maxr) == r = maxr

\* if retry == max_retries - 1: raise, else sleep and go round again
IsLastAttempt(r, maxr) == r = maxr - 1

\* ChunkHash taken from the bytes read so far in the attempt loop.
ChunkHashOfNothing(data) == Sha256(<<>>)

\* chunk_hash = hashlib.sha256(chunk_data).hexdigest()
ChunkHash(data) == Sha256(data)

\* DestinationUsed keeping the destination of an earlier attempt.
DestinationUsedStale(requested, held) ==
    IF held = 0 THEN requested ELSE held

\* The destination in curl_command: chunk_upload_url, which the request of
\* the same attempt has just assigned (held is what it was before).
DestinationUsed(requested, held) == requested

\* BackoffDelay growing linearly instead of doubling.
BackoffDelayLinear(r) == r + 1

\* time.sleep(2**retry)
BackoffDelay(r) == 2 ^ r

\* etag = line.split(":", 1)[1].strip().strip('"') of the first etag: header;
\* "" when no line starts with etag:
ExtractEtag(headers) ==
    IF headers.has_etag THEN headers.etag ELSE ""

PutHeaders == [has_etag : BOOLEAN, etag : EtagValues]

\* -------------------------------------------------------- upload_archive
\* CompletionSucceeded looking at the transport status only.
CompletionSucceededByStatus(r) == TRUE

\* InitErrorExit with the init call made inside the try block.
InitErrorExitInsideTry == "finally"

\* Where an error of init_multipart_upload leaves upload_archive: the call is
\* made before the try block, so the finally clause is not passed.
InitErrorExit == "done"

\* completion_result.get("success", True)
CompletionSucceeded(r) ==
    IF r.success = "absent" THEN TRUE ELSE r.success = "true"

\* Payloads a 2xx complete response may carry.
CompletionResponses ==
    [success : {"true", "false", "absent"},
     has_game_control_id : BOOLEAN,
     has_object_key : BOOLEAN]

\* PropagatedError with the abort error not caught in the finally clause.
PropagatedErrorAbortWins(err, abort_error) ==
    IF abort_error THEN "AbortError" ELSE err

\* The exception that leaves the try/finally of upload_archive: the finally
\* clause catches the abort error, so the exception in flight goes on.
PropagatedError(err, abort_error) == err

NoResponse ==
    [success |-> "none", has_game_control_id |-> FALSE, has_object_key |-> FALSE]
NoPut == [return_code |-> 0 - 1, etag |-> ""]

\* "if not chunk_data": f.read returned no bytes.
EndOfSourceOnShortRead(data) == Len(data) <= 1

EndOfSource(data) == data = <<>>

\* "if not etag": the response carried no ETag header, or an empty one.
EtagMissingIgnored(etag) == FALSE

EtagMissing(etag) == etag = ""

\* The value of retry in the next pass of "for retry in range(max_retries)".
NextRetryUncounted(r) == r

NextRetry(r) == r + 1

\* chunk_etags.append({"chunk_number": chunk_num, "etag": etag})
AppendRecordDropped(records, n, etag) == records

AppendRecord(records, n, etag) ==
    Append(records, [chunk_number |-> n, etag |-> etag])

\* ------------------------------------------------------------ the state
\* The state when upload_archive is entered, for one value of max_retries.
InitWith(maxr) ==
    /\ pc = "init"
    /\ max_retries = maxr
    /\ file_size \in 0..MaxFileSize
    /\ f_pos = 0
    /\ source_exhausted = FALSE
    /\ upload_id = "none"
    /\ total_chunks = 0
    /\ chunk_size_bytes = 0
    /\ upload_success = FALSE
    /\ chunk_etags = <<>>
    /\ bytes_uploaded = 0
    /\ chunk_num = 0
    /\ chunk_data = <<>>
    /\ retry = 0
    /\ total_bytes_uploaded = 0
    /\ last_progress_update = 0
    /\ error = "none"
    /\ outcome = [status |-> "running", error |-> "none"]
    /\ progress = NoSnapshot
    /\ emit_result = "none"
    /\ put_response = NoPut
    /\ url_calls = 0
    /\ put_calls = 0
    /\ last_requested = 0
    /\ backoff = <<>>
    /\ failures = 0
    /\ complete_calls = 0
    /\ complete_arg = <<>>
    /\ complete_response = NoResponse
    /\ abort_calls = 0
    /\ abort_arg = "none"
    /\ abort_failed = FALSE
    /\ chunk_hash = 0
    /\ temp_chunk = <<>>
    /\ chunk_upload_url = 0
    /\ sent_hash = 0
    /\ put_url = 0
    /\ put_body = <<>>

\* upload_archive calls upload_single_chunk without max_retries: the default.
Init == InitWith(DefaultMaxRetries)

\* ---------------------------------------------------------- the actions
\* init_multipart_upload and the set-up of the chunk loop.  An error of the
\* init call leaves upload_archive before its try block.
InitUpload ==
    /\ pc = "init"
    /\ \/ /\ pc' = InitErrorExit
          /\ outcome' = [status |-> "raised", error |-> "InitError"]
          /\ UNCHANGED <<session, chunk_num>>
       \/ /\ \E id \in UploadIds, n \in 0..MaxChunks, size \in 1..MaxChunkSize :
                /\ upload_id' = id
                /\ total_chunks' = n
                /\ chunk_size_bytes' = size
          /\ chunk_num' = 1
          /\ pc' = "loop"
          /\ UNCHANGED outcome
    /\ emit_result' = "none"
    /\ UNCHANGED <<max_retries, file_size, upload_success, chunk_etags,
                   bytes_uploaded, chunk_data, f_pos, source_exhausted,
                   attempt_vars, error,
                   progress, net_vars, complete_vars, abort_vars, wire_vars>>

\* The head of the chunk loop: the range test, f.read and the break.
ReadChunk ==
    /\ pc = "loop"
    /\ emit_result' = "none"
    /\ IF chunk_num > total_chunks
       THEN /\ pc' = "complete"
            /\ UNCHANGED <<chunk_data, f_pos, source_exhausted, error, retry,
                           backoff, failures, url_calls, put_calls,
                           chunk_hash, temp_chunk, chunk_upload_url,
                           sent_hash, put_url, put_body>>
       ELSE \/ /\ pc' = "finally"
               /\ error' = "ReadError"
               /\ UNCHANGED <<chunk_data, f_pos, source_exhausted, retry,
                              backoff, failures, url_calls, put_calls,
                              chunk_hash, temp_chunk, chunk_upload_url,
                              sent_hash, put_url, put_body>>
            \/ LET data == ReadBytes(file_size, f_pos, chunk_size_bytes)
               IN  /\ f_pos' = f_pos + Len(data)
                   /\ IF EndOfSource(data)
                      THEN /\ pc' = "complete"
                           /\ source_exhausted' = TRUE
                           /\ UNCHANGED <<chunk_data, retry, backoff, failures,
                                          url_calls, put_calls, chunk_hash,
                                          temp_chunk, chunk_upload_url,
                                          sent_hash, put_url, put_body>>
                      ELSE /\ pc' = "attempt"
                           /\ chunk_data' = data
                           /\ retry' = 0
                           /\ backoff' = <<>>
                           /\ failures' = 0
                           /\ url_calls' = 0
                           /\ put_calls' = 0
                           /\ chunk_hash' = ChunkHash(data)
                           /\ temp_chunk' = data
                           /\ chunk_upload_url' = 0
                           /\ sent_hash' = 0
                           /\ put_url' = 0
                           /\ put_body' = <<>>
                           /\ UNCHANGED source_exhausted
                   /\ UNCHANGED error
    /\ UNCHANGED <<max_retries, file_size, session, upload_success,
                   chunk_etags, bytes_uploaded, chunk_num,
                   total_bytes_uploaded, last_progress_update, outcome,
                   progress, put_response, last_requested, complete_vars,
                   abort_vars>>

\* The except clause of the retry loop after a failed attempt: the last
\* attempt raises to upload_archive, which re-raises into its finally
\* clause; an earlier one sleeps 2**retry and goes round again.
AttemptFailed ==
    /\ failures' = failures + 1
    /\ IF IsLastAttempt(retry, max_retries)
       THEN /\ pc' = "finally"
            /\ error' = "ChunkUploadFailed"
            /\ UNCHANGED <<retry, backoff>>
       ELSE /\ pc' = "attempt"
            /\ retry' = NextRetry(retry)
            /\ backoff' = Append(backoff, BackoffDelay(retry))
            /\ UNCHANGED error

\* upload_single_chunk returned etag: the record is appended, the byte
\* counter advanced and the chunk's completion snapshot emitted.  An error of
\* the emission is caught by the except clause of the loop body, which
\* re-raises it.
ChunkReturned(etag) ==
    /\ chunk_etags' = AppendRecord(chunk_etags, chunk_num, etag)
    /\ bytes_uploaded' = bytes_uploaded + Len(chunk_data)
    /\ \E elapsed \in ElapsedTimes, written \in BOOLEAN :
          IF written
          THEN /\ progress' = ProgressData(bytes_uploaded', elapsed, file_size,
                                           chunk_num, total_chunks)
               /\ emit_result' = "ok"
               /\ chunk_num' = chunk_num + 1
               /\ pc' = "loop"
               /\ UNCHANGED error
          ELSE /\ emit_result' = "error"
               /\ error' = "ProgressWriteError"
               /\ pc' = "finally"
               /\ UNCHANGED <<progress, chunk_num>>

\* The head of the retry loop and get_multipart_chunk_upload_url.  With the
\* range exhausted the function falls off its end and returns None.
GetChunkUrl ==
    /\ pc = "attempt"
    /\ IF retry >= max_retries
       THEN /\ ChunkReturned("None")
            /\ UNCHANGED <<retry, backoff, failures, total_bytes_uploaded,
                           last_progress_update, url_calls, put_calls,
                           last_requested, chunk_upload_url, sent_hash,
                           put_url, put_body>>
       ELSE /\ total_bytes_uploaded' = bytes_uploaded
            /\ url_calls' = url_calls + 1
            /\ sent_hash' = chunk_hash
            /\ last_requested' = chunk_num
            /\ emit_result' = "none"
            /\ UNCHANGED <<chunk_etags, bytes_uploaded, progress, chunk_num>>
            /\ \/ /\ AttemptFailed
                  /\ UNCHANGED <<last_progress_update, put_calls,
                                 chunk_upload_url, put_url, put_body>>
               \/ /\ pc' = "put"
                  /\ chunk_upload_url' = url_calls'
                  /\ put_calls' = put_calls + 1
                  /\ put_url' = DestinationUsed(chunk_upload_url',
                                                chunk_upload_url)
                  /\ put_body' = temp_chunk
                  /\ last_progress_update' = 0
                  /\ UNCHANGED <<retry, backoff, failures, error>>
    /\ UNCHANGED <<max_retries, file_size, session, upload_success,
                   chunk_data, f_pos, source_exhausted, outcome,
                   put_response, complete_vars, abort_vars, chunk_hash,
                   temp_chunk>>

\* One line of curl's progress output that moves the bar forward (a line
\* without '#', or one that does not pass last_progress_update, changes
\* nothing).  An error of the emission is caught and the line skipped, with
\* last_progress_update left as it was.
ProgressLine ==
    /\ pc = "put"
    /\ \E hashes \in HashCounts, elapsed \in ElapsedTimes, written \in BOOLEAN :
          LET current_chunk_bytes == CurrentChunkBytes(Len(chunk_data), hashes)
          IN  /\ hashes > 0
              /\ current_chunk_bytes > last_progress_update
              /\ total_bytes_uploaded' = bytes_uploaded + current_chunk_bytes
              /\ IF written
                 THEN /\ progress' = ProgressData(total_bytes_uploaded', elapsed,
                                                  file_size, chunk_num,
                                                  total_chunks)
                      /\ emit_result' = "ok"
                      /\ last_progress_update' = current_chunk_bytes
                 ELSE /\ emit_result' = "error"
                      /\ UNCHANGED <<progress, last_progress_update>>
    /\ UNCHANGED <<pc, max_retries, file_size, session, upload_success,
                   chunk_etags, bytes_uploaded, chunk_vars, retry, backoff,
                   failures, error, outcome, net_vars, complete_vars,
                   abort_vars, wire_vars>>

\* curl exits with a non-zero return code.
CurlFails ==
    /\ pc = "put"
    /\ put_response' = [return_code |-> 1, etag |-> ""]
    /\ AttemptFailed
    /\ emit_result' = "none"
    /\ UNCHANGED <<max_retries, file_size, session, upload_success,
                   chunk_etags, bytes_uploaded, chunk_vars,
                   total_bytes_uploaded, last_progress_update, outcome,
                   progress, url_calls, put_calls, last_requested,
                   complete_vars, abort_vars, wire_vars>>

\* curl exits with return code 0 and the dumped response headers.
CurlExits ==
    /\ pc = "put"
    /\ \E headers \in PutHeaders :
          LET etag == ExtractEtag(headers)
          IN  /\ put_response' = [return_code |-> 0, etag |-> etag]
              /\ IF EtagMissing(etag)
                 THEN /\ AttemptFailed
                      /\ emit_result' = "none"
                      /\ UNCHANGED <<chunk_etags, bytes_uploaded, progress,
                                     chunk_num>>
                 ELSE /\ ChunkReturned(etag)
                      /\ UNCHANGED <<retry, backoff, failures>>
    /\ UNCHANGED <<max_retries, file_size, session, upload_success,
                   chunk_data, f_pos, source_exhausted, total_bytes_uploaded,
                   last_progress_update, outcome, url_calls, put_calls,
                   last_requested, complete_vars, abort_vars, wire_vars>>

\* complete_multipart_upload and the reading of its result.
CompleteUpload ==
    /\ pc = "complete"
    /\ complete_calls' = complete_calls + 1
    /\ complete_arg' = chunk_etags
    /\ pc' = "finally"
    /\ emit_result' = "none"
    /\ \/ /\ error' = "CompleteError"
          /\ UNCHANGED <<complete_response, upload_success>>
       \/ \E r \in CompletionResponses :
             /\ complete_response' = r
             /\ IF ~CompletionSucceeded(r)
                THEN /\ error' = "UploadFailed"
                     /\ UNCHANGED upload_success
                ELSE IF r.has_game_control_id /\ r.has_object_key
                     THEN /\ upload_success' = TRUE
                          /\ UNCHANGED error
                     ELSE /\ error' = "KeyError"
                          /\ UNCHANGED upload_success
    /\ UNCHANGED <<max_retries, file_size, session, chunk_etags,
                   bytes_uploaded, chunk_vars, attempt_vars, outcome,
                   progress, net_vars, abort_vars, wire_vars>>

\* The finally clause: abort unless the upload succeeded, then leave.
Finally ==
    /\ pc = "finally"
    /\ pc' = "done"
    /\ emit_result' = "none"
    /\ IF ~upload_success
       THEN \E abort_error \in BOOLEAN :
               /\ abort_calls' = abort_calls + 1
               /\ abort_arg' = upload_id
               /\ abort_failed' = abort_error
               /\ outcome' =
                      LET e == PropagatedError(error, abort_error)
                      IN  IF e = "none"
                          THEN [status |-> "returned", error |-> "none"]
                          ELSE [status |-> "raised", error |-> e]
       ELSE /\ outcome' = [status |-> "returned", error |-> "none"]
            /\ UNCHANGED abort_vars
    /\ UNCHANGED <<max_retries, file_size, session, upload_success,
                   chunk_etags, bytes_uploaded, chunk_vars, attempt_vars,
                   error, progress, net_vars, complete_vars, wire_vars>>

Next ==
    \/ InitUpload
    \/ ReadChunk
    \/ GetChunkUrl
    \/ ProgressLine
    \/ CurlFails
    \/ CurlExits
    \/ CompleteUpload
    \/ Finally

Spec == Init /\ [][Next]_vars

\* Every call returns: a step that can be taken is taken, and a running curl
\* exits (it is started with --max-time) however many progress lines it
\* prints before.
FairSpec == Spec /\ WF_vars(Next) /\ WF_vars(CurlFails \/ CurlExits)

\* ------------------------------- upload_single_chunk for any max_retries
\* upload_single_chunk takes max_retries as a parameter: the same session
\* with a caller that passes a value of its own choosing, 0 included.
InitRetries == \E maxr \in 0..MaxRetries : InitWith(maxr)

SpecRetries == InitRetries /\ [][Next]_vars

\* --------------------------------------- emit_upload_progress on its own
\* A caller of emit_upload_progress with arguments of its own choosing.
InitEmit ==
    /\ InitWith(DefaultMaxRetries)
    /\ file_size = 0

EmitProgress ==
    /\ pc = "init"
    /\ \E bytes \in 0..MaxArg, total \in 0..MaxArg, elapsed \in 0..MaxElapsed,
          cur \in 0..MaxChunks, nchunks \in 0..MaxChunks :
          progress' = ProgressData(bytes, elapsed, total, cur, nchunks)
    /\ emit_result' = "ok"
    /\ UNCHANGED <<pc, max_retries, file_size, session, upload_success,
                   chunk_etags, bytes_uploaded, chunk_vars, attempt_vars,
                   error, outcome, net_vars, complete_vars, abort_vars,
                   wire_vars>>

NextEmit == EmitProgress

SpecEmit == InitEmit /\ [][NextEmit]_vars

\* --------------------------------------------------------- properties
SessionOpen == upload_id # "none"
Emitted == progress.kind = "progress"

\* The chunk numbers of a list of records are 1, 2, ..., k.
Contiguous(records) ==
    \A i \in 1..Len(records) : records[i].chunk_number = i

\* Every chunk of 1..total_chunks, or every chunk up to the read that
\* returned no bytes, has its record.
AllChunksRecorded ==
    \/ Len(chunk_etags) = total_chunks
    \/ source_exhausted /\ Len(chunk_etags) = chunk_num - 1

\* C1: complete_multipart_upload is called if and only if every chunk of
\* 1..total_chunks (or every chunk up to the exhaustion of the source) has a
\* record, and the list it is given carries the chunk numbers 1, 2, ..., k in
\* increasing order without duplicates or gaps.
C1_CompleteIffAllRecorded ==
    /\ complete_calls > 0 =>
          /\ Contiguous(complete_arg)
          /\ complete_arg = chunk_etags
          /\ AllChunksRecorded
    /\ (pc = "done" /\ SessionOpen /\ Contiguous(chunk_etags)
            /\ AllChunksRecorded) => complete_calls > 0

\* The half of C1 the code keeps: a complete call is given the records
\* 1, 2, ..., k of all the chunks.
CompleteOnlyWhenAllRecorded ==
    complete_calls > 0 =>
        /\ Contiguous(complete_arg)
        /\ complete_arg = chunk_etags
        /\ AllChunksRecorded

\* C2: when a chunk n has failed on all max_retries attempts, upload_archive
\* raises, abort is called with the session's upload_id, complete is never
\* called, and nothing is requested or transferred for a chunk above n.
C2_ExhaustedRetriesAbort ==
    (max_retries > 0 /\ failures >= max_retries) =>
        /\ pc \in {"finally", "done"}
        /\ error = "ChunkUploadFailed"
        /\ complete_calls = 0
        /\ last_requested = chunk_num
        /\ Len(chunk_etags) = chunk_num - 1
        /\ pc = "done" =>
              /\ outcome = [status |-> "raised", error |-> "ChunkUploadFailed"]
              /\ abort_calls = 1
              /\ abort_arg = upload_id

C2_Witness ==
    /\ pc = "done"
    /\ failures = max_retries
    /\ chunk_num = 1
    /\ total_chunks = 2
    /\ file_size > chunk_size_bytes
    /\ abort_calls = 1

\* C3: a complete call that returns with success = false in its payload is a
\* fatal error: upload_archive raises, abort is called with the session's
\* upload_id, and success is not reported.
C3_RejectedCompletionIsFatal ==
    complete_response.success = "false" =>
        /\ ~upload_success
        /\ pc \in {"finally", "done"}
        /\ error = "UploadFailed"
        /\ pc = "done" =>
              /\ outcome = [status |-> "raised", error |-> "UploadFailed"]
              /\ abort_calls = 1
              /\ abort_arg = upload_id

C3_Witness ==
    /\ pc = "done"
    /\ complete_response.success = "false"
    /\ complete_response.has_game_control_id
    /\ complete_response.has_object_key
    /\ abort_calls = 1

\* C4: when the chunk loop or the complete step has failed, abort is called,
\* and the failure given to the caller is that failure, also when the abort
\* call itself fails.
C4_AbortErrorDoesNotMask ==
    (pc = "done" /\ SessionOpen /\ error # "none") =>
        /\ abort_calls = 1
        /\ abort_arg = upload_id
        /\ outcome = [status |-> "raised", error |-> error]

C4_Witness ==
    /\ pc = "done"
    /\ error = "ChunkUploadFailed"
    /\ abort_failed
    /\ outcome.status = "raised"

\* C5: an attempt that succeeds after fewer than max_retries failures gives
\* its ETag to the chunk's record and upload_archive goes on to the next
\* chunk with no error and no abort; after max_retries failures it aborts.
C5_RetryThenProceed ==
    /\ [][(/\ pc = "put"
           /\ pc' # "put"
           /\ put_response'.return_code = 0
           /\ put_response'.etag # "")
          => /\ Len(chunk_etags') = Len(chunk_etags) + 1
             /\ chunk_etags'[Len(chunk_etags')].etag = put_response'.etag
             /\ pc' = "loop"
             /\ chunk_num' = chunk_num + 1
             /\ error' = "none"
             /\ abort_calls' = 0]_vars
    /\ []((max_retries > 0 /\ failures >= max_retries /\ pc = "done")
            => abort_calls = 1)

\* C6: the bytes_uploaded of successive snapshots never decreases.
C6_BytesUploadedMonotonic ==
    [][(Emitted /\ progress'.kind = "progress")
          => progress'.bytes_uploaded >= progress.bytes_uploaded]_vars

\* C7: every snapshot emitted in a session has bytes_uploaded <= total_bytes,
\* 0 <= percent <= 100 and eta_seconds >= 0.
C7_SnapshotWellFormed ==
    Emitted =>
        /\ ~RaisesZeroDivision(progress)
        /\ progress.bytes_uploaded <= progress.total_bytes
        /\ RatLE(RatZero, progress.percent)
        /\ RatLE(progress.percent, Rat(100, 1))
        /\ ~RatNeg(progress.eta_seconds)

C7_Witness ==
    /\ Emitted
    /\ pc = "put"
    /\ progress.current_chunk = 2
    /\ progress.bytes_uploaded < progress.total_bytes
    /\ RatPos(progress.eta_seconds)

\* C8: for all bytes_uploaded >= 0, total_bytes >= 0 and elapsed time >= 0,
\* eta_seconds is 0 when the speed is 0 or total_bytes is 0, eta_seconds is
\* never negative, and building the snapshot does not raise.
C8_EtaZeroOrPositive ==
    Emitted =>
        /\ ~RaisesZeroDivision(progress)
        /\ (RatIsZero(progress.speed_bps) \/ progress.total_bytes = 0)
              => RatIsZero(progress.eta_seconds)
        /\ ~RatNeg(progress.eta_seconds)

\* C9: an error of the write of a snapshot never aborts the upload: after it
\* the session goes on, with no error in flight and no abort.
C9_EmitErrorNeverFatal ==
    emit_result = "error" =>
        /\ error = "none"
        /\ pc \notin {"finally", "done"}
        /\ abort_calls = 0

\* C10: a snapshot is emitted at the start of the session before any chunk
\* is transferred, and a terminal one when the session ends: percent = 100 on
\* success, a failure snapshot on failure.
C10_StartAndTerminalSnapshots ==
    /\ put_calls > 0 => Emitted
    /\ (pc = "done" /\ SessionOpen /\ outcome.status = "returned") =>
          /\ Emitted
          /\ RatEq(progress.percent, Rat(100, 1))
    /\ (pc = "done" /\ SessionOpen /\ outcome.status = "raised") =>
          progress.kind = "failure"

\* C11: when the init call fails, upload_archive fails with that error and
\* makes no further service call: no destination request, no transfer, no
\* complete, no abort.
C11_InitFailureMakesNoCall ==
    outcome.error = "InitError" =>
        /\ pc = "done"
        /\ outcome.status = "raised"
        /\ ~SessionOpen
        /\ last_requested = 0
        /\ url_calls = 0
        /\ put_calls = 0
        /\ complete_calls = 0
        /\ abort_calls = 0

C11_Witness ==
    /\ pc = "done"
    /\ outcome = [status |-> "raised", error |-> "InitError"]
    /\ file_size > 0

\* C12: the wait before attempt i+1 is 2^i, so the waits of a chunk are
\* 1, 2, 4, 8 in that order; there is one wait per failed attempt except the
\* last of max_retries, and none after a successful attempt.
C12_BackoffDoubles ==
    /\ \A i \in 1..Len(backoff) : backoff[i] = 2 ^ (i - 1)
    /\ Len(backoff) =
          IF max_retries > 0 /\ failures >= max_retries
          THEN max_retries - 1
          ELSE failures

C12_Witness ==
    /\ backoff = <<1, 2, 4, 8>>
    /\ pc = "loop"
    /\ Len(chunk_etags) = 1
    /\ chunk_num = 2
    /\ error = "none"

\* C13: every PUT of a chunk goes to the destination obtained by the
\* get_multipart_chunk_upload_url call of the same attempt, never to one held
\* from an earlier attempt, and a chunk has no more PUTs than destination
\* requests.
C13_FreshDestinationPerPut ==
    /\ put_calls <= url_calls
    /\ pc = "put" =>
          /\ url_calls = retry + 1
          /\ chunk_upload_url = url_calls
          /\ put_url = chunk_upload_url
    /\ put_calls > 0 => put_url \in 1..url_calls

\* The third attempt of a chunk, after one failed destination request and one
\* failed PUT.
C13_Witness ==
    /\ pc = "put"
    /\ retry >= 2
    /\ put_calls = 2
    /\ url_calls = 3
    /\ put_url = 3

\* C14: a destination request or a PUT for chunk N is made only when the
\* records of chunks 1..N-1 have been appended, and while a PUT is running
\* no other call of the session is made.
C14_StrictlySequential ==
    [][/\ (url_calls' > url_calls \/ put_calls' > put_calls) =>
             /\ last_requested' = chunk_num
             /\ Len(chunk_etags) = chunk_num - 1
             /\ \A n \in 1..(chunk_num - 1) : chunk_etags[n].chunk_number = n
       /\ pc = "put" =>
             UNCHANGED <<url_calls, put_calls, last_requested, complete_calls,
                         abort_calls>>
       /\ (complete_calls' # complete_calls \/ abort_calls' # abort_calls) =>
             UNCHANGED <<url_calls, put_calls, last_requested>>
      ]_vars

\* The PUT of chunk 2 is running and the record of chunk 1 exists.
C14_Witness ==
    /\ pc = "put"
    /\ chunk_num = 2
    /\ last_requested = 2
    /\ Len(chunk_etags) = 1
    /\ chunk_etags[1].chunk_number = 1

\* C15: if every call returns, upload_archive terminates; a chunk gets at
\* most max_retries attempts and only chunks 1..total_chunks get any, so a
\* session makes at most total_chunks * max_retries attempts; complete and
\* abort are each called at most once.
C15_TerminatesWithinBudget ==
    /\ <>(pc = "done")
    /\ [](/\ url_calls <= max_retries
          /\ put_calls <= max_retries
          /\ failures <= max_retries
          /\ last_requested <= total_chunks
          /\ last_requested > 0 =>
                (last_requested - 1) * max_retries + url_calls
                    <= total_chunks * max_retries
          /\ complete_calls <= 1
          /\ abort_calls <= 1)
    /\ [][/\ last_requested' >= last_requested
          /\ url_calls' > url_calls =>
                /\ url_calls' = url_calls + 1
                /\ last_requested' = chunk_num
                /\ last_requested' > last_requested \/ url_calls > 0
          /\ pc = "done" => pc' = "done"]_vars

\* A session that spent the whole budget of its first chunk, was aborted and
\* ended.
C15_Witness ==
    /\ pc = "done"
    /\ url_calls = max_retries
    /\ failures = max_retries
    /\ total_chunks = MaxChunks
    /\ abort_calls = 1
    /\ complete_calls = 0

\* C16: a PUT that curl reports successful but whose response has no ETag,
\* or an empty one, is a failed attempt: nothing is recorded, the failure
\* counts against max_retries, and it is followed by the same backoff and
\* retry, or the same final failure, as a transport error.  No record ever
\* carries an empty ETag.
C16_MissingEtagIsFailedAttempt ==
    [][/\ (/\ pc = "put"
           /\ pc' # "put"
           /\ put_response'.return_code = 0
           /\ put_response'.etag = "") =>
             /\ failures' = failures + 1
             /\ UNCHANGED <<chunk_etags, bytes_uploaded, chunk_num>>
             /\ IF retry = max_retries - 1
                THEN /\ pc' = "finally"
                     /\ error' = "ChunkUploadFailed"
                ELSE /\ pc' = "attempt"
                     /\ retry' = retry + 1
                     /\ backoff' = Append(backoff, 2 ^ retry)
                     /\ error' = "none"
       /\ \A i \in 1..Len(chunk_etags') : chunk_etags'[i].etag # ""
      ]_vars

\* The first PUT of a chunk came back with return code 0 and no ETag: the
\* attempt failed, one second was slept and the second attempt is due.
C16_Witness ==
    /\ put_response = [return_code |-> 0, etag |-> ""]
    /\ pc = "attempt"
    /\ retry = 1
    /\ failures = 1
    /\ put_calls = 1
    /\ backoff = <<1>>
    /\ chunk_etags = <<>>

\* C17: when f.read returns no bytes at a chunk number that is still within
\* total_chunks, the loop ends without an error and without a request for
\* that chunk, and complete is called with the records made so far.  Every
\* byte of the archive was read, transferred and recorded by then, a final
\* chunk shorter than chunk_size_bytes included.
C17_EarlyExhaustionCompletes ==
    source_exhausted =>
        /\ chunk_num <= total_chunks
        /\ pc \in {"complete", "finally", "done"}
        /\ f_pos = file_size
        /\ bytes_uploaded = file_size
        /\ Len(chunk_etags) = chunk_num - 1
        /\ last_requested = Len(chunk_etags)
        /\ \A i \in 1..Len(chunk_etags) : chunk_etags[i].chunk_number = i
        /\ error \in {"none", "CompleteError", "UploadFailed", "KeyError"}
        /\ IF pc = "complete"
           THEN complete_calls = 0 /\ error = "none"
           ELSE complete_calls = 1 /\ complete_arg = chunk_etags

\* An archive of one byte with a session of two chunks of two bytes: chunk 1
\* is a short chunk, the read for chunk 2 finds the source exhausted, and the
\* upload completes with the one record.
C17_Witness ==
    /\ source_exhausted
    /\ pc = "done"
    /\ file_size = 1
    /\ chunk_size_bytes = 2
    /\ total_chunks = 2
    /\ chunk_num = 2
    /\ Len(chunk_etags) = 1
    /\ complete_calls = 1
    /\ complete_arg = chunk_etags
    /\ upload_success
    /\ abort_calls = 0
    /\ outcome = [status |-> "returned", error |-> "none"]

\* C18: the hash sent with every destination request of a chunk, the first
\* and every retried one, is the SHA-256 of the chunk's bytes, and the body
\* of every PUT is those same bytes.
C18_SameHashSameBytes ==
    /\ [](url_calls > 0 =>
            /\ sent_hash = Sha256(chunk_data)
            /\ chunk_hash = sent_hash
            /\ temp_chunk = chunk_data)
    /\ [](put_calls > 0 =>
            /\ put_body = chunk_data
            /\ Sha256(put_body) = sent_hash)
    /\ [][(url_calls > 0 /\ url_calls' > url_calls) =>
              /\ sent_hash' = sent_hash
              /\ put_calls' > put_calls => put_body' = chunk_data
              /\ put_calls' > put_calls /\ put_calls > 0 => put_body' = put_body
          ]_vars

\* The third attempt of the second chunk, after a failed destination request
\* and a failed PUT.
C18_Witness ==
    /\ pc = "put"
    /\ chunk_num = 2
    /\ retry = 2
    /\ url_calls = 3
    /\ put_calls = 2
    /\ Len(chunk_data) = 1
    /\ sent_hash = Sha256(chunk_data)
    /\ put_body = chunk_data

\* C19: abort is never called in a session whose complete call returned a
\* response reporting success, whatever else the response holds or lacks.
C19_NoAbortAfterSuccessfulComplete ==
    complete_response.success = "true" => abort_calls = 0

\* C20: whatever max_retries is, 0 included, upload_single_chunk returns only
\* the non-empty ETag of a successful PUT, so every record of chunk_etags
\* carries the non-empty ETag of the PUT response that was received for it.
C20_EveryRecordCarriesEtag ==
    /\ \A i \in 1..Len(chunk_etags) :
          chunk_etags[i].etag \in EtagValues \ {""}
    /\ Len(chunk_etags) >= chunk_num /\ chunk_num > 0 =>
          /\ put_calls > 0
          /\ put_response.return_code = 0
          /\ put_response.etag = chunk_etags[chunk_num].etag

\* C21: upload_archive reports success, returning normally, only when the
\* completion response carries a success flag that is true; a response
\* without the flag is not reported as a successful upload.
C21_SuccessOnlyOnExplicitFlag ==
    (upload_success \/ outcome.status = "returned") =>
        complete_response.success = "true"
====
